---- MODULE Spec2Model ----
(***************************************************************************)
(* MidiSynth (MyNewPlugin/MidiSynth.h, MidiSynth.cpp): the note allocator  *)
(* and block scheduler of the synth engine.                                *)
(*                                                                         *)
(* State: the engine's members that decide which voice plays which key     *)
(* (poly mode, pool size, unison count, granularity, sample time, pedal,   *)
(* held keys, sustained notes, the voices, the MIDI queue, the voice       *)
(* status bitmap) and the position of ProcessBlock inside its sub-block    *)
(* loop.  Members that only carry values through (pitch bend, mod wheel,   *)
(* base pitch, sample rate, pitch offset, previous key of the engine) are  *)
(* left out.  Two observation variables record what the last step did:     *)
(* lastOp (the operation or the dispatched message) and calls (the calls   *)
(* made on voices by that step, in order).                                 *)
(***************************************************************************)
EXTENDS Integers, Sequences, FiniteSets, TLC

\* ---------------------------------------------------------------- bounds
\* Number of voices added to the engine; stands for MAX_VOICES.
MaxVoices == 2
\* MIDI note numbers used: 0..NumKeys-1.
NumKeys == 2
\* MIDI velocities used: 0..MaxVel (0 is a note-off).
MaxVel == 1
\* Block lengths passed to ProcessBlock: 0..MaxFrames.
MaxFrames == 1
\* Granularities given to the constructor and SetGranularity: 1..MaxGran.
MaxGran == 1
\* ProcessBlock is not started once mSampleTime + nFrames would pass this.
MaxTime == 3
\* Messages waiting in the MIDI queue.
MaxQueue == 2
\* Messages the host sends in one run.
MaxMsgs == 4
\* Messages the host sends in one run in which it also reconfigures the engine.
MaxCfgMsgs == 2
\* Configuration calls the host makes after the first message or block.
MaxCalls == 1
\* Scheduling runs: block lengths 0..MaxSchedFrames, granularities
\* 0..MaxSchedGran, at most MaxSchedMsgs messages.
MaxSchedFrames == 3
MaxSchedGran == 2
MaxSchedMsgs == 3
\* Quantization runs: offsets 0..MaxQuantOffset, granularities 1..MaxQuantGran.
MaxQuantOffset == 6
MaxQuantGran == 4

Voices == 0 .. (MaxVoices - 1)
Keys == 0 .. (NumKeys - 1)
Velocities == 0 .. MaxVel
FrameCounts == 0 .. MaxFrames
Granularities == 1 .. MaxGran

kPolyModePoly == "Poly"
kPolyModeLegato == "Legato"
kPolyModeMono == "Mono"
EPolyMode == {kPolyModePoly, kPolyModeLegato, kPolyModeMono}

kATModeChannel == "Channel"
kATModePoly == "PolyAT"
EATMode == {kATModeChannel, kATModePoly}

Clip(x, lo, hi) == IF x < lo THEN lo ELSE IF x > hi THEN hi ELSE x

\* ------------------------------------------------------------ KeyPressInfo
KeyPressInfo(key, velNorm) == [mKey |-> key, mVelNorm |-> velNorm]

\* operator==(KeyPressInfo, KeyPressInfo): the key alone.
KeyPressEq(lhs, rhs) == lhs.mKey = rhs.mKey

\* std::find(list.begin(), list.end(), kp) != list.end()
FoundAtBack(list, kp) == Len(list) > 0 /\ KeyPressEq(list[Len(list)], kp)
Found(list, kp) == \E i \in 1 .. Len(list) : KeyPressEq(list[i], kp)

\* The loop "for (it = begin; it != end; it++) if (it->mKey == note) break"
\* followed by "if (erase) list.erase(it)": the first entry with that key goes.
EraseKey(list, note) ==
  IF \E i \in 1 .. Len(list) : list[i].mKey = note
  THEN LET i == CHOOSE j \in 1 .. Len(list) :
                  /\ list[j].mKey = note
                  /\ \A h \in 1 .. (j - 1) : list[h].mKey # note
       IN SubSeq(list, 1, i - 1) \o SubSeq(list, i + 1, Len(list))
  ELSE list

KeysOf(list) == {list[i].mKey : i \in 1 .. Len(list)}

\* ------------------------------------------------------------------ Voice
\* A voice as the engine sees it.  st is the voice's own envelope state, which
\* GetBusy and GetReleased report.
Free == "Free"
Sounding == "Sounding"
Released == "Released"

InitVoice == [st |-> Free, mStartTime |-> -1, mKey |-> -1, mPrevKey |-> -1,
              mStackIdx |-> -1, mAftertouch |-> 0]

GetBusy(voice) == voice.st # Free
GetReleased(voice) == voice.st # Sounding

VoiceTrigger(voice) == [voice EXCEPT !.st = Sounding]
VoiceRelease(voice) == [voice EXCEPT !.st = Released]
\* Kill(isSoft): a hard kill silences at once; after a soft kill a busy voice
\* either is silent already or fades (fading = TRUE).
VoiceKill(voice, isSoft, fading) ==
  [voice EXCEPT !.st = IF isSoft /\ fading /\ GetBusy(voice) THEN Released ELSE Free]

RemovedFromKeyKeepsKey(voice) == [voice EXCEPT !.mPrevKey = voice.mKey, !.mAftertouch = 0]
RemovedFromKey(voice) ==
  [voice EXCEPT !.mPrevKey = voice.mKey, !.mKey = -1, !.mAftertouch = 0]

\* An entry of the call log: the call, the voice index, the call's flag
\* (isRetrigger or isSoft) and the voice's stack index at the call.
Call(op, v, flag, stackIdx) == <<op, v, flag, stackIdx>>

\* ---------------------------------------------------------------- IMidiMsg
kNoteOn == "NoteOn"
kNoteOff == "NoteOff"
kChannelAftertouch == "ChannelAftertouch"
kControlChange == "ControlChange"
kSustainOnOff == 64
kAllNotesOff == 123
kNone == "None"

IMidiMsg(status, data1, data2, offset) ==
  [status |-> status, data1 |-> data1, data2 |-> data2, mOffset |-> offset]

\* The messages the host sends (pitch wheel, mod wheel and poly aftertouch
\* only store values and are left out; the aftertouch mode stays
\* kATModeChannel, its initial value).
Messages(offsets) ==
  {IMidiMsg(kNoteOn, k, vel, o) : k \in Keys, vel \in Velocities, o \in offsets}
    \cup {IMidiMsg(kNoteOff, k, 0, o) : k \in Keys, o \in offsets}
    \cup {IMidiMsg(kChannelAftertouch, 127, 0, o) : o \in offsets}
    \cup {IMidiMsg(kControlChange, kSustainOnOff, val, o) : val \in {0, 127}, o \in offsets}
    \cup {IMidiMsg(kControlChange, kAllNotesOff, 0, o) : o \in offsets}

\* ControlChange(idx) is data2 / 127; the pedal is down from 0.5 up.
SustainDown(msg) == 2 * msg.data2 >= 127

\* ------------------------------------------------------------- IMidiQueue
\* Add keeps the queue ordered by offset, a new message going behind the
\* queued ones with the same offset.
QueueAdd(queue, msg) ==
  LET n == Cardinality({i \in 1 .. Len(queue) : queue[i].mOffset <= msg.mOffset})
  IN SubSeq(queue, 1, n) \o <<msg>> \o SubSeq(queue, n + 1, Len(queue))

\* Flush(nFrames) moves every queued message one block earlier.
QueueFlush(queue, frames) ==
  IF Len(queue) = 0 THEN <<>>
  ELSE [i \in 1 .. Len(queue) |-> [queue[i] EXCEPT !.mOffset = queue[i].mOffset - frames]]

QueueEmpty(queue) == Len(queue) = 0

VARIABLES
  mPolyMode,          \* EPolyMode
  mNVoices,           \* active pool size
  mUnisonVoices,      \* voices triggered per key
  mGranularity,       \* sub-block length and quantization window
  mSampleTime,        \* samples rendered since the last Reset
  mSustainPedalDown,
  mVoicesAreActive,
  mVoiceStatus,       \* bitmap, one bit per slot
  mHeldKeys,          \* sequence of KeyPressInfo
  mSustainedNotes,    \* sequence of KeyPressInfo
  mVS,                \* the voices, by index
  mMidiQueue,         \* sequence of IMidiMsg
  pc,                 \* "idle", or the position inside ProcessBlock
  nFrames,            \* ProcessBlock's argument
  samplesRemaining,   \* ProcessBlock's local
  bs,                 \* ProcessBlock's local
  ret,                \* what the last ProcessBlock call returned
  lastOp,             \* the operation of the last step
  calls,              \* the calls the last step made on voices
  nMsgs,              \* messages sent so far
  nCalls              \* configuration calls made so far

vars == <<mPolyMode, mNVoices, mUnisonVoices, mGranularity, mSampleTime,
          mSustainPedalDown, mVoicesAreActive, mVoiceStatus, mHeldKeys,
          mSustainedNotes, mVS, mMidiQueue, pc, nFrames, samplesRemaining, bs,
          ret, lastOp, calls, nMsgs, nCalls>>

mATMode == kATModeChannel

NVoices == mNVoices
Pool == {v \in Voices : v < NVoices}

NoMsg == IMidiMsg(kNone, 0, 0, 0)
Op(name) == [op |-> name, msg |-> NoMsg]
Dispatched(msg) == [op |-> "Dispatch", msg |-> [msg EXCEPT !.mOffset = 0]]

\* ------------------------------------------------------- voice allocation
RECURSIVE FirstFree(_, _)
FirstFree(vs, v) ==
  IF v >= NVoices THEN -1
  ELSE IF ~GetBusy(vs[v]) THEN v
  ELSE FirstFree(vs, v + 1)

RECURSIVE LongestPlaying(_, _, _, _)
\* The second loop of FindFreeVoice, from voice v on.
LongestPlaying(vs, v, mostRecentTime, longestPlayingVoice) ==
  IF v >= NVoices THEN longestPlayingVoice
  ELSE IF vs[v].mStartTime < mostRecentTime
       THEN LongestPlaying(vs, v + 1, vs[v].mStartTime, v)
       ELSE LongestPlaying(vs, v + 1, mostRecentTime, longestPlayingVoice)

FindFreeVoice(vs) ==
  IF FirstFree(vs, 0) # -1 THEN FirstFree(vs, 0)
  ELSE LongestPlaying(vs, 0, mSampleTime, -1)

\* ------------------------------------------------------- stopping voices
RECURSIVE StopCalls(_, _, _)
StopCalls(vs, note, v) ==
  IF v >= NVoices THEN <<>>
  ELSE (IF vs[v].mKey = note /\ GetBusy(vs[v])
        THEN <<Call("Release", v, FALSE, vs[v].mStackIdx)>> ELSE <<>>)
       \o StopCalls(vs, note, v + 1)

StopVoice(voice) == RemovedFromKey(VoiceRelease(voice))

\* StopVoicesForKey(note): the voices after it and the calls it made.
StopVoicesForKey(vs, note) ==
  [vs |-> [v \in Voices |->
             IF v < NVoices /\ vs[v].mKey = note /\ GetBusy(vs[v])
             THEN StopVoice(vs[v]) ELSE vs[v]],
   log |-> StopCalls(vs, note, 0)]

RECURSIVE KillCalls(_, _, _)
KillCalls(vs, soft, v) ==
  IF v >= NVoices THEN <<>>
  ELSE <<Call("Kill", v, soft, vs[v].mStackIdx)>> \o KillCalls(vs, soft, v + 1)

\* KillAllVoices(soft); fading is the set of voices that fade after a soft kill.
KillBusyVoices(vs, soft, fading) ==
  [vs |-> [v \in Voices |->
             IF v < NVoices /\ GetBusy(vs[v])
             THEN RemovedFromKey(VoiceKill(vs[v], soft, v \in fading))
             ELSE vs[v]],
   log |-> SelectSeq(KillCalls(vs, soft, 0), LAMBDA c : GetBusy(vs[c[2]]))]
KillAllVoices(vs, soft, fading) ==
  [vs |-> [v \in Voices |->
             IF v < NVoices THEN RemovedFromKey(VoiceKill(vs[v], soft, v \in fading))
             ELSE vs[v]],
   log |-> KillCalls(vs, soft, 0)]

BusyInPool(vs) == {v \in Pool : GetBusy(vs[v])}

\* -------------------------------------------------------- trigger methods
RECURSIVE PolyUnisonLoop(_, _, _, _)
\* The loop of TriggerPolyNote from unison slot uv on: the voices, the calls
\* made, and whether the loop ran to its end (FALSE: "if (v == -1) return").
PolyUnisonLoop(vs, log, keyPress, uv) ==
  IF uv >= mUnisonVoices THEN [vs |-> vs, log |-> log, completed |-> TRUE]
  ELSE LET v == FindFreeVoice(vs)
       IN IF v = -1 THEN [vs |-> vs, log |-> log, completed |-> FALSE]
          ELSE LET busy == GetBusy(vs[v])
                   voice == [vs[v] EXCEPT !.mStartTime = mSampleTime,
                                          !.mKey = keyPress.mKey,
                                          !.mStackIdx = uv,
                                          !.mAftertouch = 0]
               IN PolyUnisonLoop([vs EXCEPT ![v] = VoiceTrigger(voice)],
                                 Append(log, Call("Trigger", v, busy, uv)),
                                 keyPress, uv + 1)

\* TriggerPolyNote(keyPress) on the members in S.
TriggerPolyNote(S, keyPress) ==
  LET held == IF ~Found(S.held, keyPress) THEN Append(S.held, keyPress) ELSE S.held
      sus == IF ~Found(S.sus, keyPress) THEN Append(S.sus, keyPress) ELSE S.sus
      r == PolyUnisonLoop(S.vs, S.log, keyPress, 0)
  IN [S EXCEPT !.held = held, !.sus = sus, !.vs = r.vs, !.log = r.log,
               !.active = IF r.completed THEN TRUE ELSE S.active]

\* One turn of TriggerMonoNote's loop, on unison voice v: the voice after it
\* and the call made on it, if any.
MonoStepAlwaysRetriggers(voice, note, v) ==
  LET bound == [voice EXCEPT !.mKey = note.mKey, !.mStackIdx = v, !.mAftertouch = 0]
  IN [voice |-> VoiceTrigger(bound), log |-> <<Call("Trigger", v, GetBusy(voice), v)>>]
MonoStepNeverRetriggers(voice, note, v) ==
  LET bound == [voice EXCEPT !.mKey = note.mKey, !.mStackIdx = v, !.mAftertouch = 0]
  IN IF ~GetBusy(voice) \/ GetReleased(voice)
     THEN [voice |-> VoiceTrigger(bound), log |-> <<Call("Trigger", v, GetBusy(voice), v)>>]
     ELSE [voice |-> bound, log |-> <<>>]
MonoStepRetriggersInMonoOnly(voice, note, v) ==
  LET bound == [voice EXCEPT !.mKey = note.mKey, !.mStackIdx = v, !.mAftertouch = 0]
  IN IF ~GetBusy(voice)
     THEN [voice |-> VoiceTrigger(bound), log |-> <<Call("Trigger", v, FALSE, v)>>]
     ELSE IF mPolyMode = kPolyModeMono
          THEN [voice |-> VoiceTrigger(bound), log |-> <<Call("Trigger", v, TRUE, v)>>]
          ELSE [voice |-> bound, log |-> <<>>]
MonoStep(voice, note, v) ==
  LET bound == [voice EXCEPT !.mKey = note.mKey, !.mStackIdx = v, !.mAftertouch = 0]
      voiceFree == ~GetBusy(voice)
      voiceReleased == GetReleased(voice)
  IN IF voiceFree
     THEN [voice |-> VoiceTrigger(bound), log |-> <<Call("Trigger", v, FALSE, v)>>]
     ELSE IF mPolyMode = kPolyModeMono \/ voiceReleased
          THEN [voice |-> VoiceTrigger(bound), log |-> <<Call("Trigger", v, TRUE, v)>>]
          ELSE [voice |-> bound, log |-> <<>>]

RECURSIVE MonoCalls(_, _, _)
MonoCalls(vs, note, v) ==
  IF v >= mUnisonVoices THEN <<>>
  ELSE MonoStep(vs[v], note, v).log \o MonoCalls(vs, note, v + 1)

\* TriggerMonoNote(note) on the members in S.
TriggerMonoNote(S, note) ==
  [S EXCEPT !.vs = [v \in Voices |->
                      IF v < mUnisonVoices THEN MonoStep(S.vs[v], note, v).voice
                      ELSE S.vs[v]],
            !.log = S.log \o MonoCalls(S.vs, note, 0),
            !.active = TRUE]

\* mVelocityLUT is the identity; the normalised velocity is kept as its
\* numerator over 127.
VelNorm(velocity) == Clip(velocity, 1, 127)

IsNoteOn(msg) == msg.status = kNoteOn /\ msg.data2 # 0

Stopped(S, note) ==
  LET r == StopVoicesForKey(S.vs, note)
  IN [S EXCEPT !.vs = r.vs, !.log = S.log \o r.log]

NoteOnOffPolyNoPedal(S, msg) ==
  LET note == msg.data1
  IN IF IsNoteOn(msg)
     THEN TriggerPolyNote(S, KeyPressInfo(note, VelNorm(msg.data2)))
     ELSE Stopped([S EXCEPT !.held = EraseKey(S.held, note),
                            !.sus = EraseKey(S.sus, note)], note)
NoteOnOffPoly(S, msg) ==
  LET note == msg.data1
  IN IF IsNoteOn(msg)
     THEN TriggerPolyNote(S, KeyPressInfo(note, VelNorm(msg.data2)))
     ELSE LET S1 == [S EXCEPT !.held = EraseKey(S.held, note)]
          IN IF ~S1.pedal
             THEN Stopped([S1 EXCEPT !.sus = EraseKey(S1.sus, note)], note)
             ELSE S1

\* NoteOnOffMono(msg); garbage is what mSustainedNotes.back() yields when the
\* list is empty.
NoteOnOffMono(S, msg, garbage) ==
  LET note == msg.data1
  IN IF IsNoteOn(msg)
     THEN LET theNote == KeyPressInfo(note, VelNorm(msg.data2))
              held == IF ~Found(S.held, theNote) THEN Append(S.held, theNote) ELSE S.held
          IN TriggerMonoNote([S EXCEPT !.held = held, !.sus = <<theNote>>], theNote)
     ELSE LET S1 == [S EXCEPT !.held = EraseKey(S.held, note)]
          IN IF Len(S1.held) # 0
             THEN LET queuedNote == S1.held[Len(S1.held)]
                  IN IF queuedNote.mKey # S1.vs[0].mKey
                     THEN TriggerMonoNote([S1 EXCEPT !.sus = <<queuedNote>>], queuedNote)
                     ELSE S1
             ELSE IF S1.pedal
                  THEN LET empty == Len(S1.sus) = 0
                           queuedNote == IF empty THEN garbage ELSE S1.sus[Len(S1.sus)]
                           S2 == IF empty
                                 THEN [S1 EXCEPT !.log = Append(S1.log,
                                                   Call("BackOfEmptyList", -1, FALSE, -1))]
                                 ELSE S1
                       IN IF queuedNote.mKey # S2.vs[0].mKey
                          THEN TriggerMonoNote(S2, queuedNote)
                          ELSE S2
                  ELSE Stopped(S1, note)

RECURSIVE SustainScan(_, _)
\* The loop over mSustainedNotes when the pedal goes up, from entry i on.
SustainScan(S, i) ==
  IF i > Len(S.sus) THEN S
  ELSE IF ~Found(S.held, S.sus[i])
       THEN SustainScan(Stopped([S EXCEPT !.sus = SubSeq(S.sus, 1, i - 1)
                                                   \o SubSeq(S.sus, i + 1, Len(S.sus))],
                                S.sus[i].mKey), i)
       ELSE SustainScan(S, i + 1)

\* The body of ProcessBlock's switch for one message.  fading is the set of
\* voices that fade after the soft kill of all-notes-off.
DispatchMsg(S, msg, garbage, fading) ==
  CASE msg.status \in {kNoteOn, kNoteOff} ->
         IF mPolyMode = kPolyModePoly THEN NoteOnOffPoly(S, msg)
         ELSE NoteOnOffMono(S, msg, garbage)
    [] msg.status = kChannelAftertouch ->
         IF mATMode = kATModeChannel
         THEN [S EXCEPT !.vs = [v \in Voices |->
                 IF v < NVoices THEN [S.vs[v] EXCEPT !.mAftertouch = msg.data1]
                 ELSE S.vs[v]]]
         ELSE S
    [] msg.status = kControlChange /\ msg.data1 = kSustainOnOff ->
         LET S1 == [S EXCEPT !.pedal = SustainDown(msg)]
         IN IF ~S1.pedal THEN SustainScan(S1, 1) ELSE S1
    [] msg.status = kControlChange /\ msg.data1 = kAllNotesOff ->
         LET r == KillAllVoices(S.vs, TRUE, fading)
         IN [S EXCEPT !.held = <<>>, !.sus = <<>>, !.pedal = FALSE,
                      !.vs = r.vs, !.log = S.log \o r.log]
    [] OTHER -> S

\* ------------------------------------------------------------- the engine
\* MidiSynth(polyMode, blockSize, nUnisonVoices) with MaxVoices voices added.
\* The constructor stores blockSize and nUnisonVoices; polyMode is not stored.
Constructed(blockSizes, unisonCounts) ==
  /\ mPolyMode = kPolyModePoly
  /\ mNVoices = MaxVoices
  /\ mUnisonVoices \in unisonCounts
  /\ mGranularity \in blockSizes
  /\ mSampleTime = 0
  /\ mSustainPedalDown = FALSE
  /\ mVoicesAreActive = FALSE
  /\ mVoiceStatus = [v \in Voices |-> FALSE]
  /\ mHeldKeys = <<>>
  /\ mSustainedNotes = <<>>
  /\ mVS = [v \in Voices |-> InitVoice]
  /\ mMidiQueue = <<>>
  /\ pc = "idle"
  /\ nFrames = 0
  /\ samplesRemaining = 0
  /\ bs = 0
  /\ ret = "none"
  /\ lastOp = Op("MidiSynth")
  /\ calls = <<>>
  /\ nMsgs = 0
  /\ nCalls = 0

Init == Constructed(Granularities, 1 .. MaxVoices)

Idle == pc = "idle"

Members == [held |-> mHeldKeys, sus |-> mSustainedNotes, vs |-> mVS,
            pedal |-> mSustainPedalDown, active |-> mVoicesAreActive, log |-> <<>>]

SetMembers(S) ==
  /\ mHeldKeys' = S.held
  /\ mSustainedNotes' = S.sus
  /\ mVS' = S.vs
  /\ mSustainPedalDown' = S.pedal
  /\ mVoicesAreActive' = S.active
  /\ calls' = S.log

Locals == <<pc, nFrames, samplesRemaining, bs>>

\* The host has sent no message and processed no block yet.
Setup == Idle /\ nMsgs = 0 /\ ret = "none"

\* A configuration call by the host, between two blocks.
HostCall ==
  /\ Idle
  /\ Setup \/ nCalls < MaxCalls
  /\ nCalls' = IF Setup THEN nCalls ELSE nCalls + 1
  /\ UNCHANGED nMsgs
Config == <<mPolyMode, mNVoices, mUnisonVoices, mGranularity>>

\* Reset(): a hard kill of every voice of the pool.
ResetMembers ==
  LET r == KillAllVoices(mVS, FALSE, {})
  IN /\ mSampleTime' = 0
     /\ mHeldKeys' = <<>>
     /\ mSustainedNotes' = <<>>
     /\ mVS' = r.vs
     /\ calls' = r.log

Reset ==
  /\ HostCall
  /\ ResetMembers
  /\ lastOp' = Op("Reset")
  /\ UNCHANGED <<Config, Locals, mSustainPedalDown, mVoicesAreActive, mVoiceStatus,
                 mMidiQueue, ret>>

\* SetSampleRateAndBlockSize: Reset, then the queue's capacity and the voices'
\* sample rate, neither of which is part of this state.
SetSampleRateAndBlockSize ==
  /\ HostCall
  /\ ResetMembers
  /\ lastOp' = Op("SetSampleRateAndBlockSize")
  /\ UNCHANGED <<Config, Locals, mSustainPedalDown, mVoicesAreActive, mVoiceStatus,
                 mMidiQueue, ret>>

SetGranularity(granularity) ==
  /\ HostCall
  /\ mGranularity' = granularity
  /\ lastOp' = Op("SetGranularity")
  /\ calls' = <<>>
  /\ UNCHANGED <<mPolyMode, mNVoices, mUnisonVoices, Locals, mSampleTime,
                 mSustainPedalDown, mVoicesAreActive, mVoiceStatus, mHeldKeys,
                 mSustainedNotes, mVS, mMidiQueue, ret>>

SetVoicesActive(active) ==
  /\ HostCall
  /\ mVoicesAreActive' = active
  /\ lastOp' = Op("SetVoicesActive")
  /\ calls' = <<>>
  /\ UNCHANGED <<Config, Locals, mSampleTime, mSustainPedalDown, mVoiceStatus,
                 mHeldKeys, mSustainedNotes, mVS, mMidiQueue, ret>>

SetPolyMode(mode) ==
  /\ HostCall
  /\ mPolyMode' = mode
  /\ lastOp' = Op("SetPolyMode")
  /\ calls' = <<>>
  /\ UNCHANGED <<mNVoices, mUnisonVoices, mGranularity, Locals, mSampleTime,
                 mSustainPedalDown, mVoicesAreActive, mVoiceStatus, mHeldKeys,
                 mSustainedNotes, mVS, mMidiQueue, ret>>

SetUnisonVoices(n) ==
  /\ HostCall
  /\ mUnisonVoices' = Clip(n, 1, NVoices)
  /\ lastOp' = Op("SetUnisonVoices")
  /\ calls' = <<>>
  /\ UNCHANGED <<mPolyMode, mNVoices, mGranularity, Locals, mSampleTime,
                 mSustainPedalDown, mVoicesAreActive, mVoiceStatus, mHeldKeys,
                 mSustainedNotes, mVS, mMidiQueue, ret>>

\* SetNVoices(n), n within the assertion's range.
SetNVoices(n) ==
  /\ HostCall
  /\ n > 0 /\ n <= MaxVoices
  /\ LET r == KillAllVoices(mVS, FALSE, {})
     IN mVS' = r.vs /\ calls' = r.log
  /\ mNVoices' = n
  /\ lastOp' = Op("SetNVoices")
  /\ UNCHANGED <<mPolyMode, mUnisonVoices, mGranularity, Locals, mSampleTime,
                 mSustainPedalDown, mVoicesAreActive, mVoiceStatus, mHeldKeys,
                 mSustainedNotes, mMidiQueue, ret>>

\* Rounding to the next multiple instead of the previous one.
QuantizeUp(offset, granularity) ==
  IF granularity > 1
  THEN ((offset + granularity - 1) \div granularity) * granularity
  ELSE offset
\* The offset AddMidiMsgToQueue stores (C++ integer division; offsets are >= 0).
Quantize(offset, granularity) ==
  IF granularity > 1 THEN (offset \div granularity) * granularity ELSE offset

AddMidiMsgToQueue(msg) ==
  /\ Idle
  /\ Len(mMidiQueue) < MaxQueue
  /\ nMsgs < MaxMsgs
  /\ nMsgs' = nMsgs + 1
  /\ UNCHANGED nCalls
  /\ mMidiQueue' = QueueAdd(mMidiQueue,
                            [msg EXCEPT !.mOffset = Quantize(msg.mOffset, mGranularity)])
  /\ lastOp' = [op |-> "AddMidiMsgToQueue", msg |-> msg]
  /\ calls' = <<>>
  /\ UNCHANGED <<Config, Locals, mSampleTime, mSustainPedalDown, mVoicesAreActive,
                 mVoiceStatus, mHeldKeys, mSustainedNotes, mVS, ret>>

\* -------------------------------------------------------------- ProcessBlock
\* "while (samplesRemaining > 0) { if (samplesRemaining < bs) bs = samplesRemaining;":
\* where the loop goes next and the sub-block length it takes.
LoopHead(remaining, blockSize) ==
  IF remaining > 0
  THEN [pc |-> "drain", bs |-> IF remaining < blockSize THEN remaining ELSE blockSize]
  ELSE [pc |-> "post", bs |-> blockSize]

\* The start index of the current sub-block.
s == nFrames - samplesRemaining

\* "while (!mMidiQueue.Empty())" ends: the queue is empty or "msg.mOffset > s".
DrainEndsAtOffset == IF QueueEmpty(mMidiQueue) THEN TRUE ELSE Head(mMidiQueue).mOffset >= s
DrainEnds == IF QueueEmpty(mMidiQueue) THEN TRUE ELSE Head(mMidiQueue).mOffset > s

\* "if (mVoicesAreActive | !mMidiQueue.Empty())": the block is processed.
BlockHasWorkIfBoth == mVoicesAreActive /\ ~QueueEmpty(mMidiQueue)
BlockHasWork == mVoicesAreActive \/ ~QueueEmpty(mMidiQueue)

\* Entry of ProcessBlock(nFrames = frames).
ProcessBlock(frames) ==
  /\ Idle
  /\ UNCHANGED <<nMsgs, nCalls>>
  /\ mSampleTime + frames <= MaxTime
  /\ lastOp' = Op("ProcessBlock")
  /\ calls' = <<>>
  /\ IF BlockHasWork
     THEN LET h == LoopHead(frames, mGranularity)
          IN /\ pc' = h.pc
             /\ bs' = h.bs
             /\ nFrames' = frames
             /\ samplesRemaining' = frames
             /\ ret' = "none"
     ELSE /\ ret' = "true"
          /\ UNCHANGED Locals
  /\ UNCHANGED <<Config, mSampleTime, mSustainPedalDown, mVoicesAreActive, mVoiceStatus,
                 mHeldKeys, mSustainedNotes, mVS, mMidiQueue>>

\* One turn of "while (!mMidiQueue.Empty())" that dispatches the message in front.
Dispatch ==
  /\ pc = "drain"
  /\ UNCHANGED <<nMsgs, nCalls>>
  /\ ~DrainEnds
  /\ \E garbage \in {KeyPressInfo(k, 1) : k \in Keys \cup {-1}},
        fading \in SUBSET BusyInPool(mVS) :
       SetMembers(DispatchMsg(Members, Head(mMidiQueue), garbage, fading))
  /\ mMidiQueue' = Tail(mMidiQueue)
  /\ lastOp' = Dispatched(Head(mMidiQueue))
  /\ UNCHANGED <<Config, Locals, mSampleTime, mVoiceStatus, ret>>

\* The rest of the sub-block once the drain loop ends: ProcessSlice, every busy
\* voice of the pool renders (a released voice may finish its fade while it
\* does: finished), and the counters advance.
Render ==
  /\ pc = "drain"
  /\ UNCHANGED <<nMsgs, nCalls>>
  /\ DrainEnds
  /\ \E finished \in SUBSET {v \in Pool : mVS[v].st = Released} :
       mVS' = [v \in Voices |-> IF v \in finished THEN [mVS[v] EXCEPT !.st = Free]
                                ELSE mVS[v]]
  /\ LET h == LoopHead(samplesRemaining - bs, bs)
     IN /\ pc' = h.pc
        /\ bs' = h.bs
  /\ samplesRemaining' = samplesRemaining - bs
  /\ mSampleTime' = mSampleTime + bs
  /\ lastOp' = Op("Render")
  /\ calls' = <<>>
  /\ UNCHANGED <<Config, nFrames, mSustainPedalDown, mVoicesAreActive, mVoiceStatus,
                 mHeldKeys, mSustainedNotes, mMidiQueue, ret>>

\* After the loop: the status bitmap, the active flag, the queue's flush,
\* "return false".
EndBlock ==
  /\ pc = "post"
  /\ UNCHANGED <<nMsgs, nCalls>>
  /\ mVoiceStatus' = [v \in Voices |-> IF v < NVoices THEN GetBusy(mVS[v])
                                       ELSE mVoiceStatus[v]]
  /\ mVoicesAreActive' = (BusyInPool(mVS) # {})
  /\ mMidiQueue' = QueueFlush(mMidiQueue, nFrames)
  /\ ret' = "false"
  /\ pc' = "idle"
  /\ nFrames' = 0
  /\ samplesRemaining' = 0
  /\ bs' = 0
  /\ lastOp' = Op("EndBlock")
  /\ calls' = <<>>
  /\ UNCHANGED <<Config, mSampleTime, mSustainPedalDown, mHeldKeys, mSustainedNotes, mVS>>

\* The host configures the engine, then plays: messages and blocks.
Next ==
  \/ \E mode \in EPolyMode : Setup /\ SetPolyMode(mode)
  \/ \E n \in 0 .. (MaxVoices + 1) : Setup /\ SetUnisonVoices(n)
  \/ \E n \in 1 .. MaxVoices : Setup /\ SetNVoices(n)
  \/ \E msg \in Messages({0}) : AddMidiMsgToQueue(msg)
  \/ \E frames \in FrameCounts : ProcessBlock(frames)
  \/ Dispatch
  \/ Render
  \/ EndBlock

Spec == Init /\ [][Next]_vars

\* The host also resets and reconfigures the engine between blocks while it
\* plays.
NextCfg ==
  \/ Reset
  \/ SetSampleRateAndBlockSize
  \/ \E granularity \in Granularities : SetGranularity(granularity)
  \/ \E active \in BOOLEAN : SetVoicesActive(active)
  \/ \E mode \in EPolyMode : SetPolyMode(mode)
  \/ \E n \in 0 .. (MaxVoices + 1) : SetUnisonVoices(n)
  \/ \E n \in 1 .. MaxVoices : SetNVoices(n)
  \/ \E msg \in Messages({0}) : nMsgs < MaxCfgMsgs /\ AddMidiMsgToQueue(msg)
  \/ \E frames \in FrameCounts : ProcessBlock(frames)
  \/ Dispatch
  \/ Render
  \/ EndBlock

SpecCfg == Init /\ [][NextCfg]_vars

\* ---------------------------------------------------------- scheduling runs
\* Any granularity an int parameter takes from 0 up (the constructor and
\* SetGranularity store it unchecked).
SchedGranularities == 0 .. MaxSchedGran
SchedFrameCounts == 0 .. MaxSchedFrames
\* The note-on of key k is sent at in-block offset k.
SchedMessages == {IMidiMsg(kNoteOn, k, 1, k) : k \in Keys}

InitSched == Constructed(SchedGranularities, 1 .. MaxVoices)

\* The host sends note-ons at offsets inside the block, changes the
\* granularity, and processes blocks of any length.
NextSched ==
  \/ \E granularity \in SchedGranularities : SetGranularity(granularity)
  \/ \E msg \in SchedMessages : nMsgs < MaxSchedMsgs /\ AddMidiMsgToQueue(msg)
  \/ \E frames \in SchedFrameCounts : ProcessBlock(frames)
  \/ Dispatch
  \/ Render
  \/ EndBlock

SpecSched == InitSched /\ [][NextSched]_vars

\* -------------------------------------------------------- quantization runs
QuantGranularities == 1 .. MaxQuantGran
QuantMessages == {IMidiMsg(kNoteOn, 0, 1, o) : o \in 0 .. MaxQuantOffset}

InitQuant == Constructed(QuantGranularities, {1})

\* The host sets a granularity and adds messages at any offset.
NextQuant ==
  \/ \E granularity \in QuantGranularities : SetGranularity(granularity)
  \/ \E msg \in QuantMessages : AddMidiMsgToQueue(msg)

SpecQuant == InitQuant /\ [][NextQuant]_vars

\* ================================================================ claims
IsNote(msg) == msg.status \in {kNoteOn, kNoteOff}
IsNoteOff(msg) == IsNote(msg) /\ ~IsNoteOn(msg)

\* The last step dispatched a message, a note-on, a note-off.
DispatchedMsg == lastOp.op = "Dispatch"
DispatchedNoteOn == DispatchedMsg /\ IsNoteOn(lastOp.msg)
DispatchedNoteOff == DispatchedMsg /\ IsNoteOff(lastOp.msg)
DispatchedControl(idx) ==
  DispatchedMsg /\ lastOp.msg.status = kControlChange /\ lastOp.msg.data1 = idx

CallsOf(op) == {i \in 1 .. Len(calls) : calls[i][1] = op}
NoDuplicateKeys(list) ==
  \A i, j \in 1 .. Len(list) : list[i].mKey = list[j].mKey => i = j

\* The key is used for the first time: not held, not sustained, on no voice.
FreshKey(key) ==
  /\ key \notin KeysOf(mHeldKeys)
  /\ key \notin KeysOf(mSustainedNotes)
  /\ \A v \in Voices : mVS[v].mKey # key /\ mVS[v].mPrevKey # key

\* C1: in Poly mode, with the unison count within 1..pool size, every note-on
\* (velocity > 0) for a key not used before makes exactly mUnisonVoices Trigger
\* calls, the i-th of them for unison slot i-1, and no other call.
C1_PolyNoteOnTriggersUnison ==
  [][(DispatchedNoteOn' /\ mPolyMode = kPolyModePoly
        /\ mUnisonVoices \in 1 .. mNVoices /\ FreshKey(lastOp'.msg.data1))
       => /\ Len(calls') = mUnisonVoices
          /\ \A i \in 1 .. Len(calls') :
               calls'[i][1] = "Trigger" /\ calls'[i][4] = i - 1]_vars

C3_HeldKeysDistinct ==
  /\ NoDuplicateKeys(mHeldKeys)
  /\ DispatchedNoteOff => lastOp.msg.data1 \notin KeysOf(mHeldKeys)

\* A note-off dispatched with the pedal down, another key still held.
C3_Witness ==
  /\ DispatchedNoteOff /\ mSustainPedalDown
  /\ Len(mHeldKeys) >= 1
  /\ lastOp.msg.data1 \in KeysOf(mSustainedNotes)

NoReleaseIn(log) == \A i \in 1 .. Len(log) : log[i][1] # "Release"
SoundingOn(vs, key) == {v \in Voices : vs[v].mKey = key /\ vs[v].st = Sounding}
StaySounding(key) ==
  \A v \in SoundingOn(mVS, key) : mVS'[v].mKey = key /\ mVS'[v].st = Sounding
\* Keys the pedal alone keeps sounding.
PedalHeldKeys == KeysOf(mSustainedNotes) \ KeysOf(mHeldKeys)

\* With the pedal down, the note-off of a held key takes the key out of Held
\* Keys and calls Release on no voice, the voices on which the key sounds stay
\* as they are and the key stays in Sustained Notes.
NoteOffUnderPedal ==
  (DispatchedNoteOff' /\ mSustainPedalDown /\ lastOp'.msg.data1 \in KeysOf(mHeldKeys))
    => LET k == lastOp'.msg.data1
       IN /\ k \notin KeysOf(mHeldKeys')
          /\ NoReleaseIn(calls')
          /\ StaySounding(k)
          /\ k \in KeysOf(mSustainedNotes) => k \in KeysOf(mSustainedNotes')

\* A key the pedal holds keeps its Sustained Notes entry and its sounding
\* voices through every later message and block until a sustain-pedal-up (or
\* an all-notes-off) is dispatched, unless a note-on steals the voice.
PedalKeepsKey ==
  (mSustainPedalDown
     /\ lastOp'.op \in {"Dispatch", "Render", "EndBlock", "ProcessBlock",
                        "AddMidiMsgToQueue"}
     /\ ~DispatchedControl(kSustainOnOff)'
     /\ ~DispatchedControl(kAllNotesOff)')
    => \A k \in PedalHeldKeys :
         /\ k \in KeysOf(mSustainedNotes')
         /\ ~DispatchedNoteOn' => StaySounding(k)

C5_MonoReleaseRetriggersHeldKey ==
  [][(DispatchedNoteOff' /\ mPolyMode = kPolyModeMono /\ ~mSustainPedalDown
        /\ lastOp'.msg.data1 \in KeysOf(mHeldKeys)
        /\ Len(mHeldKeys) >= 2
        /\ mVS[0].mKey = lastOp'.msg.data1)
       => LET rest == EraseKey(mHeldKeys, lastOp'.msg.data1)
              A == rest[Len(rest)]
          IN /\ Len(calls') = mUnisonVoices
             /\ \A i \in 1 .. Len(calls') : calls'[i] = Call("Trigger", i - 1, TRUE, i - 1)
             /\ \A v \in Voices :
                  v < mUnisonVoices => mVS'[v].mKey = A.mKey /\ mVS'[v].st = Sounding
             /\ mSustainedNotes' = <<A>>
             /\ mHeldKeys' = rest]_vars

\* The note-off of the key pressed last has re-triggered the key still held.
C5_Witness ==
  /\ DispatchedNoteOff /\ mPolyMode = kPolyModeMono /\ ~mSustainPedalDown
  /\ Len(mHeldKeys) = 1 /\ mSustainedNotes = mHeldKeys
  /\ mHeldKeys[1].mKey # lastOp.msg.data1
  /\ mVS[0].mKey = mHeldKeys[1].mKey
  /\ Len(calls) = mUnisonVoices
  /\ calls[1] = Call("Trigger", 0, TRUE, 0)

\* A held key other than that of the note-on the step dispatches, and a voice
\* on which it sounds.
LegatoOverlap(A, v) ==
  /\ DispatchedNoteOn' /\ mPolyMode = kPolyModeLegato
  /\ A \in KeysOf(mHeldKeys) /\ A # lastOp'.msg.data1
  /\ v \in SoundingOn(mVS, A)

\* C6 as stated: in Legato mode, a note-on for B while held key A sounds on a
\* voice calls Trigger(isRetrigger = FALSE) on that voice.
C6_LegatoTriggersSoundingVoice ==
  [][\A A \in Keys, v \in Voices :
       LegatoOverlap(A, v)
         => \E i \in 1 .. Len(calls') :
              calls'[i][1] = "Trigger" /\ calls'[i][2] = v /\ calls'[i][3] = FALSE]_vars

\* C6, amended: in Legato mode, a note-on for B while held key A sounds on a
\* voice makes no call on that voice: it keeps sounding and, when it is one of
\* the unison voices, is bound to B with its stack index and aftertouch 0.
C6_LegatoLeavesSoundingVoice ==
  [][\A A \in Keys, v \in Voices :
       LegatoOverlap(A, v)
         => /\ \A i \in 1 .. Len(calls') : calls'[i][2] # v
            /\ mVS'[v].st = Sounding
            /\ mVS'[v].mStartTime = mVS[v].mStartTime
            /\ IF v < mUnisonVoices
               THEN /\ mVS'[v].mKey = lastOp'.msg.data1
                    /\ mVS'[v].mStackIdx = v
                    /\ mVS'[v].mAftertouch = 0
               ELSE mVS'[v] = mVS[v]]_vars

\* A Legato note-on over a held, sounding key: no call, voice 0 re-bound.
C6_Witness ==
  /\ DispatchedNoteOn /\ mPolyMode = kPolyModeLegato
  /\ Len(mHeldKeys) >= 2
  /\ calls = <<>>
  /\ mVS[0].mKey = lastOp.msg.data1 /\ mVS[0].st = Sounding

\* The pool voice with the smallest start time, the lowest index among equals.
Oldest(vs) ==
  CHOOSE v \in Pool :
    \A w \in Pool : \/ vs[v].mStartTime < vs[w].mStartTime
                    \/ vs[v].mStartTime = vs[w].mStartTime /\ v <= w

\* C7: when every voice of the pool is busy, a Poly note-on first triggers
\* (steals) the voice with the smallest start time, the lowest index among
\* equal start times, whatever the start times and the sample time.
C7_StealsOldestVoice ==
  [][(DispatchedNoteOn' /\ mPolyMode = kPolyModePoly /\ mUnisonVoices >= 1
        /\ BusyInPool(mVS) = Pool)
       => /\ Len(calls') >= 1
          /\ calls'[1] = Call("Trigger", Oldest(mVS), TRUE, 0)]_vars

\* C8: in Poly mode the allocator finds a voice of the pool in every state.
C8_AllocatorFindsVoice ==
  mPolyMode = kPolyModePoly => FindFreeVoice(mVS) \in Pool

\* C9: right after an all-notes-off is dispatched, Held Keys and Sustained
\* Notes are empty, the pedal is up, Kill was called once on every voice of the
\* pool and nothing else, and every pool voice is detached (key -1,
\* aftertouch 0).
C9_AllNotesOffClearsAll ==
  DispatchedControl(kAllNotesOff)
    => /\ Len(mHeldKeys) = 0
       /\ Len(mSustainedNotes) = 0
       /\ ~mSustainPedalDown
       /\ Len(calls) = mNVoices
       /\ \A i \in 1 .. Len(calls) : calls[i][1] = "Kill" /\ calls[i][2] = i - 1
       /\ \A v \in Pool : mVS[v].mKey = -1 /\ mVS[v].mAftertouch = 0

\* An all-notes-off that killed a voice bound to a key, which now fades.
C9_Witness ==
  /\ DispatchedControl(kAllNotesOff)
  /\ \E v \in Pool : mVS[v].mPrevKey # -1 /\ mVS[v].st = Released

SentOffset(msg) == msg.data1

\* The block being finished is the first to render frames, so that every
\* queued message was added before it began and none was flushed.
FirstRenderedBlock == mSampleTime = nFrames

\* C11: when ProcessBlock returns, no event that was added before the block
\* began with an in-block offset smaller than the block's frame count is still
\* queued, whatever the granularity at the time it was added and at the time
\* the block is processed.
C11_QueuedEventsDrained ==
  [][(lastOp'.op = "EndBlock" /\ FirstRenderedBlock)
       => \A i \in 1 .. Len(mMidiQueue) : SentOffset(mMidiQueue[i]) >= nFrames]_vars

\* C12: a note-off for a key that is not in Held Keys is a no-op in every mode
\* and pedal state: the step makes no call on any voice, reads the back of no
\* empty list, and leaves every voice's key as it was.
C12_StrayNoteOffIsNoOp ==
  [][(DispatchedNoteOff' /\ lastOp'.msg.data1 \notin KeysOf(mHeldKeys))
       => /\ calls' = <<>>
          /\ \A v \in Voices : mVS'[v].mKey = mVS[v].mKey]_vars

\* The offset under which the step's AddMidiMsgToQueue stored its message: the
\* one offset the queue holds once more than before.
StoredOffset ==
  CHOOSE q \in {mMidiQueue'[i].mOffset : i \in 1 .. Len(mMidiQueue')} :
    Cardinality({i \in 1 .. Len(mMidiQueue') : mMidiQueue'[i].mOffset = q})
      > Cardinality({i \in 1 .. Len(mMidiQueue) : mMidiQueue[i].mOffset = q})

\* C13: for every offset >= 0 and granularity g >= 1, the offset q that
\* AddMidiMsgToQueue stores is a multiple of g, is at most the offset given,
\* and is a fixed point of the quantization with g.
C13_QuantizedOffset ==
  [][(lastOp'.op = "AddMidiMsgToQueue" /\ mGranularity >= 1)
       => LET g == mGranularity
              q == StoredOffset
          IN /\ Len(mMidiQueue') = Len(mMidiQueue) + 1
             /\ q % g = 0
             /\ q <= lastOp'.msg.mOffset
             /\ Quantize(q, g) = q]_vars

\* A message sent at offset 5 under granularity 3 was stored at offset 3.
C13_Witness ==
  /\ lastOp.op = "AddMidiMsgToQueue" /\ lastOp.msg.mOffset = 5
  /\ mGranularity = 3
  /\ Len(mMidiQueue) = 1 /\ mMidiQueue[1].mOffset = 3

FreeInPool(vs) == Pool \ BusyInPool(vs)

\* Every call of the log is a Trigger(isRetrigger = FALSE) on a voice that was
\* free, no voice twice, the i-th call for unison slot i-1.
TriggersFreeVoices(log, vs) ==
  /\ \A i \in 1 .. Len(log) :
       /\ log[i][1] = "Trigger" /\ log[i][3] = FALSE /\ log[i][4] = i - 1
       /\ log[i][2] \in FreeInPool(vs)
  /\ \A i, j \in 1 .. Len(log) : log[i][2] = log[j][2] => i = j

\* C14: inside ProcessBlock a sub-block is rendered only when no queued event
\* has an offset <= the sub-block's start; an event is dispatched only in a
\* sub-block whose start is >= its stored offset, and it is the one in front
\* of the queue, which no queued event precedes in offset; a Poly note-on
\* dispatched while enough voices are free triggers free voices only and
\* leaves the busy ones alone, so that two note-ons of one granularity window
\* sound on distinct voices before the window is rendered.
C14_EventsDispatchedBeforeRender ==
  [][/\ lastOp'.op = "Render"
          => \A i \in 1 .. Len(mMidiQueue) : mMidiQueue[i].mOffset > s
     /\ lastOp'.op = "Dispatch"
          => /\ lastOp'.msg = Dispatched(Head(mMidiQueue)).msg
             /\ Head(mMidiQueue).mOffset <= s
             /\ \A i \in 1 .. Len(mMidiQueue) :
                  Head(mMidiQueue).mOffset <= mMidiQueue[i].mOffset
             /\ mMidiQueue' = Tail(mMidiQueue)
             /\ mSampleTime' = mSampleTime
     /\ (DispatchedNoteOn' /\ mPolyMode = kPolyModePoly
           /\ Cardinality(FreeInPool(mVS)) >= mUnisonVoices)
          => /\ Len(calls') = mUnisonVoices
             /\ TriggersFreeVoices(calls', mVS)
             /\ \A v \in BusyInPool(mVS) : mVS'[v] = mVS[v]]_vars

\* Under granularity 2 the note-ons sent at offsets 0 and 1 have both been
\* dispatched in the sub-block that starts at 0, which is not rendered yet, and
\* sound on the two voices.
C14_Witness ==
  /\ lastOp.op = "Dispatch" /\ pc = "drain" /\ s = 0 /\ mGranularity = 2
  /\ mSampleTime = 0
  /\ QueueEmpty(mMidiQueue)
  /\ mVS[0].st = Sounding /\ mVS[1].st = Sounding
  /\ {mVS[0].mKey, mVS[1].mKey} = {0, 1}

\* C15: in every state the unison count is between 1 and the active pool size
\* and the active pool size between 1 and the number of voices.
C15_UnisonWithinPool ==
  /\ mNVoices \in 1 .. MaxVoices
  /\ mUnisonVoices \in 1 .. mNVoices

\* C16: every ProcessBlock call terminates: each turn of the sub-block loop
\* takes a sub-block of positive length out of the frames that remain, which
\* never go below 0, for every granularity the constructor or SetGranularity
\* accepts.
C16_SubBlocksConsumeFrames ==
  [][lastOp'.op = "Render"
       => /\ bs >= 1
          /\ samplesRemaining' < samplesRemaining
          /\ samplesRemaining' >= 0]_vars

DispatchedPedalUp == DispatchedControl(kSustainOnOff) /\ ~SustainDown(lastOp.msg)

\* The keys a pedal-up takes out of Sustained Notes: those no longer held.
PedalOnlyKeys == KeysOf(mSustainedNotes) \ KeysOf(mHeldKeys)

\* What a pedal-up does, for the voices among which it has to release: the
\* entries of still held keys stay in Sustained Notes in their order and the
\* others go, Held Keys stays, Release is called once on every busy voice
\* among them that is bound to a removed key and on no other voice, and every
\* other voice stays as it was.
PedalUpReleases(among) ==
  LET stopped == {v \in among : GetBusy(mVS[v]) /\ mVS[v].mKey \in PedalOnlyKeys}
  IN DispatchedPedalUp'
       => /\ mSustainedNotes'
               = SelectSeq(mSustainedNotes, LAMBDA e : e.mKey \in KeysOf(mHeldKeys))
          /\ mHeldKeys' = mHeldKeys
          /\ ~mSustainPedalDown'
          /\ Len(calls') = Cardinality(stopped)
          /\ \A v \in stopped :
               /\ \E i \in 1 .. Len(calls') : calls'[i][1] = "Release" /\ calls'[i][2] = v
               /\ mVS'[v].st = Released /\ mVS'[v].mKey = -1
          /\ \A v \in Voices \ stopped : mVS'[v] = mVS[v]

\* C17: a sustain-pedal-up removes from Sustained Notes exactly the entries
\* whose key is not held and calls Release on every busy voice bound to a
\* removed key; the entries of held keys stay in order and no other voice is
\* released.
C17_PedalUpReleasesUnheldKeys == [][PedalUpReleases(Voices)]_vars

\* C18: whenever the mode is Mono or Legato, Sustained Notes holds at most
\* one entry, also after SetPolyMode switches away from Poly.
C18_MonoSustainsOneNote ==
  mPolyMode \in {kPolyModeMono, kPolyModeLegato} => Len(mSustainedNotes) <= 1


\* The calls the last step made on voice v.
CallsOn(log, v) == {i \in 1 .. Len(log) : log[i][2] = v}
OneTrigger(log, v, isRetrigger) ==
  /\ Cardinality(CallsOn(log, v)) = 1
  /\ \A i \in CallsOn(log, v) : log[i] = Call("Trigger", v, isRetrigger, v)

\* C19: a note-on dispatched in Mono or Legato mode binds every unison voice
\* to the new key with its stack index and aftertouch 0; a voice that was
\* free gets Trigger(isRetrigger = false), a busy voice gets
\* Trigger(isRetrigger = true) exactly when the mode is Mono or the voice was
\* released, and a busy, not released voice in Legato mode gets no call.
C19_MonoNoteTriggers ==
  [][(DispatchedNoteOn' /\ mPolyMode # kPolyModePoly)
       => \A v \in Voices : v < mUnisonVoices =>
            /\ mVS'[v].mKey = lastOp'.msg.data1
            /\ mVS'[v].mStackIdx = v
            /\ mVS'[v].mAftertouch = 0
            /\ IF ~GetBusy(mVS[v]) THEN OneTrigger(calls', v, FALSE)
               ELSE IF mPolyMode = kPolyModeMono \/ GetReleased(mVS[v])
                    THEN OneTrigger(calls', v, TRUE)
                    ELSE CallsOn(calls', v) = {}]_vars
\* A Legato note-on has just been dispatched and made no call: every unison
\* voice was busy and not released.
C19_Witness ==
  DispatchedNoteOn /\ mPolyMode = kPolyModeLegato /\ Len(calls) = 0


\* NActiveVoices(): the number of bits set in the whole voice status bitmap.
NActiveVoices == Cardinality({v \in Voices : mVoiceStatus[v]})

\* C20: at the end of every processed block the active-voice count read from
\* the bitmap equals the number of busy voices in slots 0..NVoices-1, and so
\* is at most the pool size, whatever SetNVoices calls came between blocks.
C20_ActiveCountIsBusyPool ==
  lastOp.op = "EndBlock" => NActiveVoices = Cardinality(BusyInPool(mVS))


\* C21: in every polyphony mode, whenever the sustain pedal is up, every key
\* in Sustained Notes is also in Held Keys.
C21_SustainedKeysAreHeld ==
  ~mSustainPedalDown => KeysOf(mSustainedNotes) \subseteq KeysOf(mHeldKeys)


\* C22: whenever Held Keys is empty and the sustain pedal is up, no voice is
\* sounding (busy and not released).
C22_NoStuckNotes ==
  (Len(mHeldKeys) = 0 /\ ~mSustainPedalDown)
    => \A v \in Voices : mVS[v].st # Sounding

====
